---------------------------- MODULE Spec2Model ----------------------------
(***************************************************************************)
(* Model of rvc/train/preprocess/preprocess.py: the per-file pipeline      *)
(* (load, high-pass, slicing, window cutting, normalization, dual-rate     *)
(* write) and the pool of worker processes that runs it over a directory.  *)
(*                                                                         *)
(* Units.  Times given on the command line are kept in tenths of a second  *)
(* (per = PerT/10, OVERLAP = OverlapT/10), lengths and positions in        *)
(* samples, amplitudes in tenths (2.5 = 25), normalised amplitudes in      *)
(* thousandths.  The products the code forms in double precision are       *)
(* formed exactly here; the configurations of Configs are those on which   *)
(* the double-precision evaluation of lines 108-112 gives the same         *)
(* integers as the exact one for every segment length the model uses.      *)
(***************************************************************************)
EXTENDS Integers, Sequences, FiniteSets, TLC

VARIABLES
    conf,       \* [sr, per, cut, effects, nproc]: the arguments of preprocess_training_set,
                \* and faulty: the library calls that can raise in this run
    listing,    \* os.listdir(input_root): a sequence of directory entries
    mainpc,     \* position of preprocess_training_set
    files,      \* the list of (entry, idx) built at lines 176-180
    results,    \* idx0 -> what process_audio returned (None until then)
    wk,         \* worker process -> its position and locals in process_audio
    artifacts,  \* the writes made into sliced_audios / sliced_audios_16k
    calls,      \* idx0 -> the windows handed to process_audio_segment, in order
    failed,     \* idx0 -> the step of process_audio that raised ("none" if none did)
    report      \* model_info.json

vars == <<conf, listing, mainpc, files, results, wk, artifacts, calls, failed, report>>

---------------------------------------------------------------------------
(* Program constants *)

OverlapT == 3
SAMPLE_RATE_16K == 16000
PeakLimitT == 25
MaxAmpAlphaM == 675
OneMinusAlphaC == 25

(* Bounds of the model *)

MaxEntries == 2
MaxIdx1 == 80

\* Python's None, where the model keeps a number otherwise
None == 0 - 1

---------------------------------------------------------------------------
(* Python helpers *)

\* int(x) for x = n/d, d > 0: truncation toward zero
Trunc(n, d) == IF n >= 0 THEN n \div d ELSE -((-n) \div d)

Min(a, b) == IF a <= b THEN a ELSE b
Max(a, b) == IF a >= b THEN a ELSE b

\* a slice bound of a sequence of n elements: negative counts from the end, then clamped
PyIndex(n, k) == IF k < 0 THEN Max(n + k, 0) ELSE Min(k, n)

\* seq[a:b] of a sequence of n elements, as the range <<lo, hi>> of positions it keeps
PySlice(n, a, b) ==
    LET lo == PyIndex(n, a)
        hi == PyIndex(n, b)
    IN  <<lo, Max(lo, hi)>>

\* seq[a:]
PySliceFrom(n, a) == <<PyIndex(n, a), n>>

RECURSIVE SumSeq(_)
SumSeq(s) == IF s = <<>> THEN 0 ELSE Head(s) + SumSeq(Tail(s))


---------------------------------------------------------------------------
(* The waveform of a directory entry, as far as the pipeline reads it:     *)
(* its length, the non-silent ranges the Slicer yields for it, and one     *)
(* optional spike (a sample of absolute value amp) over a floor of 0.5.    *)

FloorAmpT == 5

Spikes(e) == IF e.spike = None THEN {} ELSE {e.spike}

\* np.abs(audio).max() of the samples [lo, hi) of entry e (hi > lo)
PeakOf(e, lo, hi) ==
    IF \E p \in Spikes(e) : lo <= p /\ p < hi THEN Max(e.amp, FloorAmpT) ELSE FloorAmpT

---------------------------------------------------------------------------
(* PreProcess._normalize_audio, lines 58-62 *)

\* line 60: the window is refused
Rejected(peak) == peak > PeakLimitT

\* line 62: peak of audio / tmp_max * (MAX_AMPLITUDE * ALPHA) + (1 - ALPHA) * audio, in thousandths
NormalizedPeak(peak) == MaxAmpAlphaM + OneMinusAlphaC * peak

\* line 72, process_effects false: the window passes unchanged (thousandths)
RawPeak(peak) == 100 * peak

---------------------------------------------------------------------------
(* The cutting loop of process_audio, lines 106-124, on a segment of n samples *)

\* line 108: start = int(self.sr * (self.per - OVERLAP) * i)
\* (variant: the stride taken as per, without the overlap)
WindowStartNoOverlap(sr, per, i) == Trunc(sr * per * i, 10)
WindowStart(sr, per, i) == Trunc(sr * (per - OverlapT) * i, 10)

\* line 110: len(audio_segment[start:]) > (self.per + OVERLAP) * self.sr
RemainingLen(n, start) == PySliceFrom(n, start)[2] - PySliceFrom(n, start)[1]
IsFull(n, start, sr, per) == 10 * RemainingLen(n, start) > (per + OverlapT) * sr

\* lines 111-113: audio_segment[start : start + int(self.per * self.sr)]
\* (variant: the full window taken as long as the loop's threshold)
FullWindowLong(n, start, sr, per) == PySlice(n, start, start + Trunc((per + OverlapT) * sr, 10))
FullWindow(n, start, sr, per) == PySlice(n, start, start + Trunc(per * sr, 10))

\* line 119: audio_segment[start:]
TailWindow(n, start) == PySliceFrom(n, start)

\* one pass of the loop body for counter i: the window it cuts and whether it breaks
CutStep(n, sr, per, i) ==
    LET start == WindowStart(sr, per, i)
        full  == IsFull(n, start, sr, per)
        rng   == IF full THEN FullWindow(n, start, sr, per) ELSE TailWindow(n, start)
    IN  [start |-> start, lo |-> rng[1], hi |-> rng[2], tail |-> ~full]


---------------------------------------------------------------------------
(* Inputs *)

Procs == {1, 2}

\* the steps of process_audio that call into a library that can raise
Steps == {"load", "filter", "slice", "normalize", "write_gt", "resample", "write_16k"}

\* (sample rate, per in tenths of a second)
Configs ==
    ({100} \X {1, 3, 4, 5}) \cup ({11025} \X {1, 5, 30}) \cup ({40000} \X {30})

\* segment durations in tenths of a second, placed around the loop's threshold
LensT(per) == {0, per + OverlapT, per + OverlapT + 1, 2 * per + 2, 3 * per + 10}

Samples(sr, t) == (t * sr) \div 10

\* the spike of a waveform of n samples cut with windows of per: <<position, amplitude>>
SpikeChoices(sr, per, n) ==
    IF n = 0 THEN {<<None, FloorAmpT>>}
    ELSE {<<None, FloorAmpT>>, <<0, PeakLimitT>>, <<0, PeakLimitT + 1>>,
          <<Min(Samples(sr, per), n) - 1, PeakLimitT + 1>>, <<n - 1, PeakLimitT + 1>>}

\* a file the Slicer returns whole (no silence found)
OneSegment(n, spike, amp) ==
    [audio |-> TRUE, len |-> n, segs |-> <<<<0, n>>>>, spike |-> spike, amp |-> amp]

\* a file with a silent stretch the Slicer removes between two segments
TwoSegments(n1, gap, n2, spike, amp) ==
    [audio |-> TRUE, len |-> n1 + gap + n2,
     segs |-> <<<<0, n1>>, <<n1 + gap, n1 + gap + n2>>>>, spike |-> spike, amp |-> amp]

NotAudio == [audio |-> FALSE, len |-> 0, segs |-> <<>>, spike |-> None, amp |-> FloorAmpT]

OneSegmentEntries(sr, per) ==
    UNION {{OneSegment(Samples(sr, t), sp[1], sp[2]) : sp \in SpikeChoices(sr, per, Samples(sr, t))} :
              t \in LensT(per)}

TwoSegmentEntries(sr, per) ==
    UNION {{TwoSegments(Samples(sr, t[1]), Samples(sr, 2), Samples(sr, t[2]), sp[1], sp[2]) :
                sp \in SpikeChoices(sr, per, Samples(sr, t[1] + 2 + t[2]))} :
              t \in {0, per + OverlapT + 1, 2 * per + 2} \X {0, per + OverlapT + 1}}

CutEntries(sr, per) == OneSegmentEntries(sr, per) \cup TwoSegmentEntries(sr, per)

PoolConf ==
    [sr : {100}, per : {5}, cut : BOOLEAN, effects : BOOLEAN, nproc : Procs,
     faulty : {{"load", "write_16k"}}]

PoolEntries ==
    {NotAudio,
     OneSegment(Samples(100, 9), None, FloorAmpT),
     TwoSegments(Samples(100, 9), Samples(100, 2), Samples(100, 4), 0, PeakLimitT + 1)}

RECURSIVE SeqsUpTo(_, _)
SeqsUpTo(S, n) ==
    IF n = 0 THEN {<<>>}
    ELSE LET shorter == SeqsUpTo(S, n - 1)
         IN  shorter \cup {Append(q, x) : q \in {r \in shorter : Len(r) = n - 1}, x \in S}

---------------------------------------------------------------------------
(* State *)

Idle == [pc |-> "idle", task |-> 0, audio_length |-> 0, idx1 |-> 0, seg |-> 0, i |-> 0,
         lo |-> 0, hi |-> 0, tail |-> FALSE, peak |-> 0]

Absent == [exists |-> FALSE, other |-> FALSE, total_seconds |-> None, total_dataset_duration |-> <<>>]
Stale  == [exists |-> TRUE, other |-> TRUE, total_seconds |-> 7, total_dataset_duration |-> <<0, 0, 7>>]

InitRest ==
    /\ mainpc = "start"
    /\ files = <<>>
    /\ results = <<>>
    /\ wk = [w \in Procs |-> Idle]
    /\ artifacts = {}
    /\ calls = <<>>
    /\ failed = <<>>

Init ==
    /\ conf \in PoolConf
    /\ listing \in SeqsUpTo(PoolEntries, MaxEntries) \ {<<>>}
    /\ report = Stale
    /\ InitRest

InitCut ==
    /\ \E c \in Configs : conf \in [sr : {c[1]}, per : {c[2]}, cut : BOOLEAN, effects : BOOLEAN, nproc : {1},
                                  faulty : {Steps}]
    /\ \E e \in CutEntries(conf.sr, conf.per) : listing = <<e>>
    /\ report = Absent
    /\ InitRest


---------------------------------------------------------------------------
(* preprocess_training_set, lines 163-194 *)

\* lines 176-180: (path, idx) for idx, f in enumerate(os.listdir(...)) if f has an audio extension
EnumerateFiles(l) ==
    LET RECURSIVE Go(_, _)
        Go(k, acc) ==
            IF k > Len(l) THEN acc
            ELSE Go(k + 1, IF l[k].audio THEN Append(acc, [entry |-> k, idx0 |-> k - 1]) ELSE acc)
    IN  Go(1, <<>>)

Tasks == 1..Len(files)
EntryOf(t) == listing[files[t].entry]

\* a task pool.map has not handed out yet, and one a worker is running
Queued == 0 - 2
Running == 0 - 3

\* lines 172-181: the pipeline object, the file list, the pool
Enumerate ==
    /\ mainpc = "start"
    /\ files' = EnumerateFiles(listing)
    /\ results' = [t \in 1..Len(files') |-> Queued]
    /\ calls' = [t \in 1..Len(files') |-> <<>>]
    /\ failed' = [t \in 1..Len(files') |-> "none"]
    /\ mainpc' = "map"
    /\ UNCHANGED <<conf, listing, wk, artifacts, report>>

\* format_duration, lines 132-136, of total / sr seconds
FormatDuration(total, sr) ==
    LET seconds == total \div sr
    IN  <<seconds \div 3600, (seconds % 3600) \div 60, seconds % 60>>

\* save_dataset_duration, lines 139-154: the two duration keys are replaced, others kept
SaveDatasetDuration(old, total, sr) ==
    [exists |-> TRUE, other |-> old.exists /\ old.other,
     total_seconds |-> total, total_dataset_duration |-> FormatDuration(total, sr)]

\* lines 182-194: pool.map returns once every task has returned; sum, save, print
Aggregate ==
    /\ mainpc = "map"
    /\ \A t \in Tasks : results[t] >= 0
    /\ report' = SaveDatasetDuration(report, SumSeq(results), conf.sr)
    /\ mainpc' = "done"
    /\ UNCHANGED <<conf, listing, files, results, wk, artifacts, calls, failed>>

---------------------------------------------------------------------------
(* process_audio_wrapper / PreProcess.process_audio, lines 90-129 and 157-160 *)

Set(w, rec) == wk' = [wk EXCEPT ![w] = rec]

\* what a library call can do in this run: return (TRUE) or, where the run's
\* environment lets it fail, raise (FALSE)
Outcomes(step) == IF step \in conf.faulty THEN BOOLEAN ELSE {TRUE}

Raise(w, step) ==
    /\ Set(w, [wk[w] EXCEPT !.pc = "except"])
    /\ failed' = [failed EXCEPT ![wk[w].task] = step]

\* a pool process takes the next queued task; line 97: audio_length = 0
Take(w, t) ==
    /\ mainpc = "map"
    /\ w <= conf.nproc
    /\ wk[w].pc = "idle"
    /\ results[t] = Queued
    /\ results' = [results EXCEPT ![t] = Running]
    /\ Set(w, [Idle EXCEPT !.pc = "load", !.task = t])
    /\ UNCHANGED <<conf, listing, mainpc, files, artifacts, calls, failed, report>>

\* the call of process_audio_segment on the samples [lo, hi) of the file
CallSegment(w, rec, start, lo, hi, tail) ==
    /\ Set(w, [rec EXCEPT !.pc = "normalize", !.lo = lo, !.hi = hi, !.tail = tail])
    /\ calls' = [calls EXCEPT ![rec.task] =
                    Append(@, [seg |-> rec.seg, i |-> rec.i, start |-> start, lo |-> lo, hi |-> hi,
                               idx1 |-> rec.idx1, tail |-> tail])]

\* lines 103-104 and 126: idx1 = 0, then the Slicer or the whole waveform as one window
EnterCut(w, rec) ==
    IF conf.cut
    THEN Set(w, [rec EXCEPT !.pc = "slice", !.idx1 = 0, !.seg = 0]) /\ UNCHANGED calls
    ELSE CallSegment(w, [rec EXCEPT !.idx1 = 0, !.seg = 0, !.i = 0], 0, 0, EntryOf(rec.task).len, TRUE)

\* lines 99-100: load_audio and librosa.get_duration (kept in samples)
Load(w) ==
    /\ wk[w].pc = "load"
    /\ \E ok \in Outcomes("load") :
        IF ok
        THEN LET rec == [wk[w] EXCEPT !.audio_length = EntryOf(wk[w].task).len]
             IN  /\ IF conf.effects
                    THEN Set(w, [rec EXCEPT !.pc = "filter"]) /\ UNCHANGED calls
                    ELSE EnterCut(w, rec)
                 /\ UNCHANGED failed
        ELSE Raise(w, "load") /\ UNCHANGED calls
    /\ UNCHANGED <<conf, listing, mainpc, files, results, artifacts, report>>

\* lines 101-102: signal.lfilter
Filter(w) ==
    /\ wk[w].pc = "filter"
    /\ \E ok \in Outcomes("filter") :
        IF ok
        THEN EnterCut(w, wk[w]) /\ UNCHANGED failed
        ELSE Raise(w, "filter") /\ UNCHANGED calls
    /\ UNCHANGED <<conf, listing, mainpc, files, results, artifacts, report>>

\* line 105: the next segment of self.slicer.slice(audio), or the end of the for loop; line 106: i = 0
Slice(w) ==
    /\ wk[w].pc = "slice"
    /\ \E ok \in Outcomes("slice") :
        IF ok
        THEN /\ IF wk[w].seg < Len(EntryOf(wk[w].task).segs)
                THEN Set(w, [wk[w] EXCEPT !.pc = "cut", !.seg = @ + 1, !.i = 0])
                ELSE Set(w, [wk[w] EXCEPT !.pc = "return"])
             /\ UNCHANGED failed
        ELSE Raise(w, "slice")
    /\ UNCHANGED <<conf, listing, mainpc, files, results, artifacts, calls, report>>

\* lines 108-115 / 119-121: one pass of the while loop up to the call of process_audio_segment
Cut(w) ==
    /\ wk[w].pc = "cut"
    /\ wk[w].idx1 < MaxIdx1
    /\ LET rng == EntryOf(wk[w].task).segs[wk[w].seg]
           c   == CutStep(rng[2] - rng[1], conf.sr, conf.per, wk[w].i)
       IN  CallSegment(w, wk[w], c.start, rng[1] + c.lo, rng[1] + c.hi, c.tail)
    /\ UNCHANGED <<conf, listing, mainpc, files, results, artifacts, failed, report>>

\* after process_audio_segment returns: lines 117 / 123-124, or the end of line 126
\* (variants: idx1 started again for each segment; line 123 left out)
AfterSegmentResetIdx(rec) ==
    IF ~conf.cut THEN [rec EXCEPT !.pc = "return"]
    ELSE IF rec.tail THEN [rec EXCEPT !.pc = "slice", !.idx1 = 0, !.i = @ + 1]
    ELSE [rec EXCEPT !.pc = "cut", !.idx1 = @ + 1, !.i = @ + 1]
AfterSegmentNoTailIncrement(rec) ==
    IF ~conf.cut THEN [rec EXCEPT !.pc = "return"]
    ELSE IF rec.tail THEN [rec EXCEPT !.pc = "slice", !.i = @ + 1]
    ELSE [rec EXCEPT !.pc = "cut", !.idx1 = @ + 1, !.i = @ + 1]
AfterSegment(rec) ==
    IF ~conf.cut THEN [rec EXCEPT !.pc = "return"]
    ELSE IF rec.tail THEN [rec EXCEPT !.pc = "slice", !.idx1 = @ + 1, !.i = @ + 1]
    ELSE [rec EXCEPT !.pc = "cut", !.idx1 = @ + 1, !.i = @ + 1]

\* lines 74-75: a refused window makes process_audio_segment return at once
\* (variant: a refused window raised to the handler of process_audio)
RejectWindowRaises(w) == Raise(w, "normalize")
RejectWindow(w) == Set(w, AfterSegment(wk[w])) /\ UNCHANGED failed

\* lines 71-75: normalization, or the window unchanged
Normalize(w) ==
    /\ wk[w].pc = "normalize"
    /\ LET peak == PeakOf(EntryOf(wk[w].task), wk[w].lo, wk[w].hi)
       IN  IF conf.effects
           THEN IF wk[w].hi = wk[w].lo
                THEN Raise(w, "normalize")      \* max() of an empty array
                ELSE IF Rejected(peak)
                     THEN RejectWindow(w)
                     ELSE /\ Set(w, [wk[w] EXCEPT !.pc = "write_gt", !.peak = NormalizedPeak(peak)])
                          /\ UNCHANGED failed
           ELSE /\ Set(w, [wk[w] EXCEPT !.pc = "write_gt",
                                        !.peak = IF wk[w].hi = wk[w].lo THEN 0 ELSE RawPeak(peak)])
                /\ UNCHANGED failed
    /\ UNCHANGED <<conf, listing, mainpc, files, results, artifacts, calls, report>>

\* the file wavfile.write leaves at os.path.join(dir, f"{idx0}_{idx1}.wav")
Artifact(w, dir, rate) ==
    [dir |-> dir, idx0 |-> files[wk[w].task].idx0, idx1 |-> wk[w].idx1, rate |-> rate,
     entry |-> files[wk[w].task].entry, seg |-> wk[w].seg, i |-> wk[w].i,
     lo |-> wk[w].lo, hi |-> wk[w].hi, peak |-> wk[w].peak]

\* lines 76-80
WriteGt(w) ==
    /\ wk[w].pc = "write_gt"
    /\ \E ok \in Outcomes("write_gt") :
        IF ok
        THEN /\ artifacts' = artifacts \cup {Artifact(w, "sliced_audios", conf.sr)}
             /\ Set(w, [wk[w] EXCEPT !.pc = "resample"])
             /\ UNCHANGED failed
        ELSE Raise(w, "write_gt") /\ UNCHANGED artifacts
    /\ UNCHANGED <<conf, listing, mainpc, files, results, calls, report>>

\* lines 81-83
Resample(w) ==
    /\ wk[w].pc = "resample"
    /\ \E ok \in Outcomes("resample") :
        IF ok
        THEN Set(w, [wk[w] EXCEPT !.pc = "write_16k"]) /\ UNCHANGED failed
        ELSE Raise(w, "resample")
    /\ UNCHANGED <<conf, listing, mainpc, files, results, artifacts, calls, report>>

\* lines 84-88, then back in process_audio
Write16k(w) ==
    /\ wk[w].pc = "write_16k"
    /\ \E ok \in Outcomes("write_16k") :
        IF ok
        THEN /\ artifacts' = artifacts \cup {Artifact(w, "sliced_audios_16k", SAMPLE_RATE_16K)}
             /\ Set(w, AfterSegment(wk[w]))
             /\ UNCHANGED failed
        ELSE Raise(w, "write_16k") /\ UNCHANGED artifacts
    /\ UNCHANGED <<conf, listing, mainpc, files, results, calls, report>>

\* lines 127-128: except Exception: print
\* (variant: the exception re-raised, reaching pool.map in the orchestrator)
ExceptPropagates(w) ==
    /\ wk[w].pc = "except"
    /\ Set(w, Idle)
    /\ mainpc' = "raised"
    /\ UNCHANGED <<conf, listing, files, results, artifacts, calls, failed, report>>
Except(w) ==
    /\ wk[w].pc = "except"
    /\ Set(w, [wk[w] EXCEPT !.pc = "return"])
    /\ UNCHANGED <<conf, listing, mainpc, files, results, artifacts, calls, failed, report>>

\* line 129 (and 160): the duration goes back to pool.map
Returned(w) == wk[w].audio_length

Return(w) ==
    /\ wk[w].pc = "return"
    /\ results' = [results EXCEPT ![wk[w].task] = Returned(w)]
    /\ Set(w, Idle)
    /\ UNCHANGED <<conf, listing, mainpc, files, artifacts, calls, failed, report>>

---------------------------------------------------------------------------

Next ==
    \/ Enumerate
    \/ Aggregate
    \/ \E w \in Procs : \E t \in Tasks : Take(w, t)
    \/ \E w \in Procs : Load(w)
    \/ \E w \in Procs : Filter(w)
    \/ \E w \in Procs : Slice(w)
    \/ \E w \in Procs : Cut(w)
    \/ \E w \in Procs : Normalize(w)
    \/ \E w \in Procs : WriteGt(w)
    \/ \E w \in Procs : Resample(w)
    \/ \E w \in Procs : Write16k(w)
    \/ \E w \in Procs : Except(w)
    \/ \E w \in Procs : Return(w)

Spec == Init /\ [][Next]_vars

\* every pool process keeps running: a step that is possible is eventually taken
FairSpec == Spec /\ WF_vars(Next)

CutSpec == InitCut /\ [][Next]_vars


---------------------------------------------------------------------------
(* What a run of process_audio that nothing interrupts does with a file *)

\* lines 106-124 for one segment: the windows from counter i on, numbered from idx1
RECURSIVE CutSegment(_, _, _, _)
CutSegment(e, seg, i, idx1) ==
    LET rng == e.segs[seg]
        c   == CutStep(rng[2] - rng[1], conf.sr, conf.per, i)
        rec == [seg |-> seg, i |-> i, start |-> c.start, lo |-> rng[1] + c.lo,
                hi |-> rng[1] + c.hi, idx1 |-> idx1, tail |-> c.tail]
    IN  IF c.tail \/ idx1 + 1 >= MaxIdx1 THEN <<rec>>
        ELSE <<rec>> \o CutSegment(e, seg, i + 1, idx1 + 1)

\* lines 103-126: every window of every segment, idx1 running on across segments
RECURSIVE CutFile(_, _, _)
CutFile(e, seg, idx1) ==
    IF seg > Len(e.segs) \/ idx1 >= MaxIdx1 THEN <<>>
    ELSE LET ws == CutSegment(e, seg, 0, idx1)
         IN  IF ws[Len(ws)].tail THEN ws \o CutFile(e, seg + 1, idx1 + Len(ws)) ELSE ws

ExpectedCalls(e) ==
    IF conf.cut THEN CutFile(e, 1, 0)
    ELSE <<[seg |-> 0, i |-> 0, start |-> 0, lo |-> 0, hi |-> e.len, idx1 |-> 0, tail |-> TRUE]>>

\* lines 71-75: whether process_audio_segment writes the window [lo, hi) of e
Accepted(e, lo, hi) == ~(conf.effects /\ hi > lo /\ Rejected(PeakOf(e, lo, hi)))

\* lines 71-73: the peak of what is written
WrittenPeak(e, lo, hi) ==
    IF hi = lo THEN 0
    ELSE IF conf.effects THEN NormalizedPeak(PeakOf(e, lo, hi)) ELSE RawPeak(PeakOf(e, lo, hi))

\* lines 76-88: the two files of one accepted window
ArtifactPair(k, e, idx0, c) ==
    {[dir |-> d[1], idx0 |-> idx0, idx1 |-> c.idx1, rate |-> d[2], entry |-> k, seg |-> c.seg,
      i |-> c.i, lo |-> c.lo, hi |-> c.hi, peak |-> WrittenPeak(e, c.lo, c.hi)] :
        d \in {<<"sliced_audios", conf.sr>>, <<"sliced_audios_16k", SAMPLE_RATE_16K>>}}

ExpectedArtifacts(t) ==
    LET e  == EntryOf(t)
        cs == ExpectedCalls(e)
    IN  UNION {ArtifactPair(files[t].entry, e, files[t].idx0, cs[k]) :
                 k \in {j \in 1..Len(cs) : Accepted(e, cs[j].lo, cs[j].hi)}}

---------------------------------------------------------------------------
(* Reading the state *)

InSegment == {"normalize", "write_gt", "resample", "write_16k"}

\* the last window of calls[t] is still inside process_audio_segment
CallOpen(t) == \E w \in Procs : wk[w].task = t /\ wk[w].pc \in InSegment

FinishedCalls(t) == 1..(Len(calls[t]) - (IF CallOpen(t) THEN 1 ELSE 0))

HasFile(dir, idx0, idx1) == \E a \in artifacts : a.dir = dir /\ a.idx0 = idx0 /\ a.idx1 = idx1

ArtifactsOf(t) == {a \in artifacts : a.idx0 = files[t].idx0}

HasReturned(t) == results[t] >= 0


---------------------------------------------------------------------------
(* C1 *)

\* C1: whatever step of process_audio raised for a file (load, filter, slicing,
\* normalization, resampling, either write), the duration process_audio returns
\* for that file is 0.
C1_FailureReturnsZero ==
    \A t \in Tasks : (HasReturned(t) /\ failed[t] # "none") => results[t] = 0

---------------------------------------------------------------------------
(* C2 *)

\* the durations of the files whose decoding did not fail
DecodedDurations == [t \in Tasks |-> IF failed[t] = "load" THEN 0 ELSE EntryOf(t).len]

\* C2: no exception of a worker reaches the orchestrator and the run is never
\* stuck before its end;
\* a file whose decoding fails returns 0 and writes nothing; every file that
\* nothing interrupts returns its own duration and leaves exactly the artifacts
\* its own content determines, whatever the other files and workers did; once every
\* task has returned the orchestrator can finish, and the report it writes holds
\* the sum of the durations of the files that were decoded.
C2_FaultIsolation ==
    /\ mainpc \in {"start", "map", "done"}
    /\ mainpc # "done" => ENABLED Next
    /\ \A t \in Tasks :
          HasReturned(t) =>
             /\ failed[t] = "load" => results[t] = 0 /\ ArtifactsOf(t) = {}
             /\ failed[t] = "none" =>
                   results[t] = EntryOf(t).len /\ ArtifactsOf(t) = ExpectedArtifacts(t)
    /\ (mainpc = "map" /\ \A t \in Tasks : HasReturned(t)) => ENABLED Aggregate
    /\ mainpc = "done" =>
          /\ report.exists
          /\ report.total_seconds = SumSeq(DecodedDurations)
          /\ report.total_dataset_duration = FormatDuration(SumSeq(DecodedDurations), conf.sr)

\* a run of at least two files is over, one file failed to decode and another,
\* uninterrupted, wrote artifacts
C2_Witness ==
    /\ mainpc = "done"
    /\ \E t, u \in Tasks :
          /\ failed[t] = "load"
          /\ failed[u] = "none" /\ ArtifactsOf(u) # {}
          /\ report.total_seconds >= EntryOf(u).len

---------------------------------------------------------------------------
(* C3 *)

\* C3: once process_audio_segment is over for a window (returned or raised), the
\* native-rate file and the 16 kHz file of its key both exist or both do not.
C3_BothOrNeither ==
    \A t \in Tasks : \A k \in FinishedCalls(t) :
        HasFile("sliced_audios", files[t].idx0, calls[t][k].idx1)
            <=> HasFile("sliced_audios_16k", files[t].idx0, calls[t][k].idx1)

---------------------------------------------------------------------------
(* C4 *)

CallsOfSegment(t, seg) == SelectSeq(calls[t], LAMBDA c : c.seg = seg)

LongSegment(rng) == 10 * (rng[2] - rng[1]) > (conf.per + OverlapT) * conf.sr

\* C4: for a segment longer than (per + OVERLAP) * sr samples the windows cut
\* from it start at its first sample, each starts no later than the end of the one
\* before, the terminal one ends at its last sample, and two consecutive full
\* windows share exactly OVERLAP * sr samples.
C4_CoverAndOverlap ==
    conf.cut =>
    \A t \in Tasks : \A seg \in 1..Len(EntryOf(t).segs) :
        LET rng == EntryOf(t).segs[seg]
            cs  == CallsOfSegment(t, seg)
        IN  LongSegment(rng) =>
              /\ cs # <<>> => cs[1].lo = rng[1]
              /\ \A k \in 2..Len(cs) : cs[k].lo <= cs[k - 1].hi
              /\ \A k \in 1..Len(cs) : cs[k].tail => cs[k].hi = rng[2]
              /\ \A k \in 2..Len(cs) :
                    (~cs[k].tail /\ ~cs[k - 1].tail)
                        => 10 * (cs[k - 1].hi - cs[k].lo) = OverlapT * conf.sr

---------------------------------------------------------------------------
(* C5 *)

\* C5: the loop over one segment ends: it never goes through more passes than
\* the segment has samples, plus the terminal one.
C5_LoopEnds ==
    \A t \in Tasks : \A seg \in 1..Len(EntryOf(t).segs) :
        Len(CallsOfSegment(t, seg)) <= (EntryOf(t).segs[seg][2] - EntryOf(t).segs[seg][1]) + 1

\* the same passes counted where the stride per - OVERLAP is not zero
C5_LoopEndsWithStride ==
    conf.per # OverlapT => C5_LoopEnds /\ \A w \in Procs : wk[w].idx1 < MaxIdx1 - 1


---------------------------------------------------------------------------
(* C6 *)

\* C6: the windows of one file reach process_audio_segment with idx1 = 0, 1, 2, ...
\* in temporal order (segment after segment, pass after pass, starts never
\* moving back), the count running on from one segment to the next; without
\* window cutting the whole waveform is the only window, with idx1 = 0.
C6_IndicesIncrease ==
    \A t \in Tasks :
        LET cs == calls[t]
        IN  /\ \A k \in 1..Len(cs) : cs[k].idx1 = k - 1
            /\ \A k \in 2..Len(cs) :
                  /\ cs[k].seg >= cs[k - 1].seg
                  /\ cs[k].seg = cs[k - 1].seg => cs[k].i = cs[k - 1].i + 1
                  /\ cs[k].lo >= cs[k - 1].lo
            /\ ~conf.cut =>
                  /\ Len(cs) <= 1
                  /\ \A k \in 1..Len(cs) : cs[k].lo = 0 /\ cs[k].hi = EntryOf(t).len

\* a file of two segments has been cut to its end, the first segment in several windows
C6_Witness ==
    \E t \in Tasks :
        /\ HasReturned(t) /\ failed[t] = "none" /\ conf.cut
        /\ Len(calls[t]) >= 3
        /\ calls[t][2].seg = 1
        /\ calls[t][Len(calls[t])].seg = 2 /\ calls[t][Len(calls[t])].idx1 = Len(calls[t]) - 1

---------------------------------------------------------------------------
(* C7 *)

\* C7: no path {idx0}_{idx1}.wav of either output directory is written by two
\* different windows: an idx0 belongs to one file, and within the file an idx1
\* to one pass over one segment.
C7_NoSharedPath ==
    /\ \A a, b \in artifacts :
          (a.dir = b.dir /\ a.idx0 = b.idx0 /\ a.idx1 = b.idx1)
              => (a.entry = b.entry /\ a.seg = b.seg /\ a.i = b.i)
    /\ \A t, u \in Tasks : files[t].idx0 = files[u].idx0 => t = u

\* two workers are both about to write, for different files, and both files
\* already have artifacts
C7_Witness ==
    \E v, w \in Procs :
        /\ v # w
        /\ wk[v].pc = "write_16k" /\ wk[w].pc = "write_gt"
        /\ wk[v].idx1 = wk[w].idx1
        /\ ArtifactsOf(wk[v].task) # {} /\ ArtifactsOf(wk[w].task) # {}

---------------------------------------------------------------------------
(* C8 *)

\* one 10-second file at 40000 Hz the Slicer returns whole, per = 3.0, cutting on
EndToEnd ==
    /\ conf.sr = 40000 /\ conf.per = 30 /\ conf.cut
    /\ Len(listing) = 1 /\ listing[1].segs = <<<<0, 400000>>>>

EndToEndDone == EndToEnd /\ Tasks = {1} /\ HasReturned(1) /\ failed[1] = "none"

PairWritten(t, c) ==
    /\ HasFile("sliced_audios", files[t].idx0, c.idx1)
    /\ HasFile("sliced_audios_16k", files[t].idx0, c.idx1)

\* C8: in the end-to-end example the cutter emits full windows at idx1 = 0, 1, 2, 3,
\* 0.3 s overlapping, then a shorter tail window, and each index gets its pair.
C8_FourFullThenTail ==
    EndToEndDone =>
        LET cs == calls[1]
        IN  /\ Len(cs) = 5
            /\ \A k \in 1..4 : ~cs[k].tail /\ cs[k].idx1 = k - 1 /\ cs[k].hi - cs[k].lo = 120000
            /\ \A k \in 2..4 : cs[k - 1].hi - cs[k].lo = 12000
            /\ cs[5].tail /\ cs[5].hi - cs[5].lo < 120000 /\ cs[5].hi = 400000
            /\ \A k \in 1..5 : Accepted(listing[1], cs[k].lo, cs[k].hi) => PairWritten(1, cs[k])

\* C8 as the code has it: full windows at idx1 = 0, 1, 2 (120000 samples, 12000
\* shared), the tail [324000, 400000) at idx1 = 3, and a pair for each index whose
\* window normalization does not refuse.
C8_ThreeFullThenTail ==
    EndToEndDone =>
        LET cs == calls[1]
        IN  /\ Len(cs) = 4
            /\ \A k \in 1..3 :
                  ~cs[k].tail /\ cs[k].idx1 = k - 1
                  /\ cs[k].lo = 108000 * (k - 1) /\ cs[k].hi = cs[k].lo + 120000
            /\ cs[4].tail /\ cs[4].idx1 = 3 /\ cs[4].lo = 324000 /\ cs[4].hi = 400000
            /\ \A k \in 1..4 :
                  Accepted(listing[1], cs[k].lo, cs[k].hi) <=> PairWritten(1, cs[k])

C8_Witness == EndToEndDone /\ conf.effects /\ Cardinality(artifacts) = 8

---------------------------------------------------------------------------
(* C9 *)

\* the k-th window of file t as lines 103-126 fix it from the one before alone
CallAfter(t, k) ==
    LET e    == EntryOf(t)
        prev == calls[t][k - 1]
        seg  == IF k = 1 THEN 1 ELSE IF prev.tail THEN prev.seg + 1 ELSE prev.seg
        i    == IF k = 1 \/ prev.tail THEN 0 ELSE prev.i + 1
        c    == CutStep(e.segs[seg][2] - e.segs[seg][1], conf.sr, conf.per, i)
    IN  IF conf.cut
        THEN [seg |-> seg, i |-> i, start |-> c.start, lo |-> e.segs[seg][1] + c.lo,
              hi |-> e.segs[seg][1] + c.hi, idx1 |-> k - 1, tail |-> c.tail]
        ELSE [seg |-> 0, i |-> 0, start |-> 0, lo |-> 0, hi |-> e.len, idx1 |-> 0, tail |-> TRUE]

RejectedCall(t, c) == conf.effects /\ c.hi > c.lo /\ Rejected(PeakOf(EntryOf(t), c.lo, c.hi))

\* C9: with effects on, a window whose peak exceeds 2.5 leaves no file at either
\* rate and raises nothing; each window handed to process_audio_segment (the
\* newest of calls[t], which only ever grows at its end) is the one the cutter
\* yields after the window before it, refused or not, and a file nothing
\* interrupts ends with exactly the pairs of its accepted windows, normalized.
C9_RejectionSilent ==
    \A t \in Tasks :
        /\ \A k \in FinishedCalls(t) :
              RejectedCall(t, calls[t][k]) =>
                 /\ ~HasFile("sliced_audios", files[t].idx0, calls[t][k].idx1)
                 /\ ~HasFile("sliced_audios_16k", files[t].idx0, calls[t][k].idx1)
                 /\ (k = Len(calls[t]) => failed[t] \notin InSegment)
        /\ calls[t] # <<>> => calls[t][Len(calls[t])] = CallAfter(t, Len(calls[t]))
        /\ (HasReturned(t) /\ failed[t] = "none") =>
              /\ calls[t] = ExpectedCalls(EntryOf(t))
              /\ ArtifactsOf(t) = ExpectedArtifacts(t)

\* a file is done, uninterrupted: one of its windows was refused and a later one written
C9_Witness ==
    \E t \in Tasks :
        /\ HasReturned(t) /\ failed[t] = "none"
        /\ \E j, k \in 1..Len(calls[t]) :
              /\ j < k
              /\ RejectedCall(t, calls[t][j])
              /\ PairWritten(t, calls[t][k])
              /\ \E a \in artifacts : a.idx1 = calls[t][k].idx1 /\ a.peak = NormalizedPeak(FloorAmpT)

---------------------------------------------------------------------------
(* C10 *)

SegmentLen(t, c) == EntryOf(t).segs[c.seg][2] - EntryOf(t).segs[c.seg][1]

\* C10: every window before the terminal one has exactly per * sr samples, the
\* terminal one at most (per + OVERLAP) * sr, and no window starts beyond the
\* length of its segment.
C10_WindowSizes ==
    conf.cut =>
    \A t \in Tasks : \A k \in 1..Len(calls[t]) :
        LET c == calls[t][k]
        IN  /\ ~c.tail => 10 * (c.hi - c.lo) = conf.per * conf.sr
            /\ c.tail => 10 * (c.hi - c.lo) <= (conf.per + OverlapT) * conf.sr
            /\ c.start <= SegmentLen(t, c)

\* C10 as the code has it: int(per * sr) samples, per * sr cut down to a whole number
C10_WindowSizesTruncated ==
    conf.cut =>
    \A t \in Tasks : \A k \in 1..Len(calls[t]) :
        LET c == calls[t][k]
        IN  /\ ~c.tail => c.hi - c.lo = Trunc(conf.per * conf.sr, 10)
            /\ c.tail => 10 * (c.hi - c.lo) <= (conf.per + OverlapT) * conf.sr
            /\ c.start <= SegmentLen(t, c)
            /\ c.lo - EntryOf(t).segs[c.seg][1] <= SegmentLen(t, c)

\* a segment whose per * sr is not whole was cut into full windows and its tail
C10_Witness ==
    \E t \in Tasks :
        /\ HasReturned(t) /\ failed[t] = "none" /\ conf.cut
        /\ (conf.per * conf.sr) % 10 # 0
        /\ Len(calls[t]) >= 3
        /\ ~calls[t][1].tail /\ ~calls[t][2].tail /\ calls[t][Len(calls[t])].tail

===========================================================================
